---- MODULE Spec2Model ----
(***************************************************************************)
(* A model of sphinx_galleria's generation engine (gen_rst.py):            *)
(* generate_file_rst and the functions it calls (md5sum_is_current,        *)
(* execute_code_block, handle_exception, save_figures, figure_rst,         *)
(* save_thumbnail), called on one example file.  Each step of the Python   *)
(* code is one action, sequenced by pc.  A behaviour is either one call,   *)
(* explored with everything a code block can do to the process             *)
(* (scope.detail), or a sequence of calls and builds between which the     *)
(* source and the execution policy may change, explored with the blocks'   *)
(* coarse outcomes.                                                        *)
(***************************************************************************)
EXTENDS Integers, Sequences, FiniteSets, TLC

(***************************************************************************)
(* Bounds of the model.                                                    *)
(***************************************************************************)
MaxFigNum == 2       \* matplotlib figure numbers a block can leave open
MaxScenes == 1       \* mayavi scenes that can be open at once
MaxRuns == 2         \* calls of generate_file_rst in a sequence of calls
MaxFigs == 2         \* length of figure_rst's input list in SpecFigureRst
MaxRestLines == 3    \* lines after the docstring in SpecParser
MaxBuilds == 3       \* calls of generate_file_rst in SpecCache
MaxChars == 4        \* characters written to a LoggingTee in SpecTee
MaxCalls == 4        \* calls of write and flush on a LoggingTee in SpecTee

(***************************************************************************)
(* Values.                                                                 *)
(***************************************************************************)
SrcFile == "examples/plot_a.py"
SrcDir == "examples"
StartDir == "doc"
Dirs == {StartDir, SrcDir, "elsewhere"}
OrigStdout == "stdout"
Tee == "LoggingTee"
Streams == {OrigStdout, Tee, "user_stream"}
ArgvInit == <<"sphinx-build", "-b", "html">>
FigNums == 1..MaxFigNum
Times == {0, 1}

NoExc == [etype |-> "none", stack |-> <<>>]
NoRet == [kind |-> "none", intro |-> <<>>, time |-> 0, etype |-> "none"]
NoMd5 == <<>>
NoThumb == [src |-> "none", num |-> 0]

\* The layouts split_code_and_text_blocks can return for the modelled
\* sources: the docstring text block first, then code and text blocks.
Layouts ==
    { <<"text">>,
      <<"text", "code">>,
      <<"text", "code", "code">>,
      <<"text", "code", "text", "code">> }

\* thumbnail_number as extract_file_config can return it: absent (the
\* default), an integer, or a literal that is not an integer.
ThumbSettings ==
    { [given |-> FALSE, isint |-> TRUE, val |-> 0],
      [given |-> TRUE, isint |-> TRUE, val |-> 2],
      [given |-> TRUE, isint |-> FALSE, val |-> 0] }

\* The sources of the example file: a docstring (from which the
\* introduction is extracted), the blocks the parser returns for it and the
\* file configuration its directives give.
Docs == {"doc_a"}
Contents ==
    { [doc |-> d, blocks |-> b, thumbnail_number |-> t] :
        d \in Docs, b \in Layouts, t \in ThumbSettings }
\* the sources of a sequence of calls: two docstrings, at most one code block
SeqContents ==
    { [doc |-> d, blocks |-> b, thumbnail_number |-> t] :
        d \in {"doc_a", "doc_b"}, b \in {<<"text", "code">>},
        t \in ThumbSettings }
NoContent == [doc |-> "", blocks |-> <<>>,
              thumbnail_number |-> [given |-> FALSE, isint |-> TRUE, val |-> 0]]

VARIABLES
    \* gallery_conf and the registry it holds
    gallery_conf, failing_examples,
    \* process-wide state
    cwd, sys_stdout, sys_argv, fignums, scenes,
    \* files
    src_content, example_file, md5_file, images, thumb_file, thumb_dir,
    rst_file, notebook_file,
    \* generate_file_rst's frame
    pc, script_blocks, file_conf, intro, block_idx, block_vars, argv_orig,
    time_elapsed, example_rst, example_globals,
    \* execute_code_block's frame
    ecb,
    \* the last call's result
    ret,
    \* history of the calls, kept for the properties
    runs, cur, last,
    \* what the behaviour explores
    scope,
    \* the call of a function checked on its own: its name, its arguments
    \* and, once it has returned, its result
    pure

confvars == <<gallery_conf, failing_examples>>
procvars == <<cwd, sys_stdout, sys_argv, fignums, scenes>>
filevars == <<src_content, example_file, md5_file, images, thumb_file,
              thumb_dir, rst_file, notebook_file>>
gfrvars == <<script_blocks, file_conf, intro, block_idx, block_vars,
             argv_orig, time_elapsed, example_rst, example_globals>>
histvars == <<runs, cur, last>>
envvars == <<scope, pure>>
vars == <<confvars, procvars, filevars, pc, gfrvars, ecb, ret, histvars,
          envvars>>

(***************************************************************************)
(* Pure helpers.                                                           *)
(***************************************************************************)
Max(a, b) == IF a >= b THEN a ELSE b

RECURSIVE SortedSeq(_)
\* plt.get_fignums(): the open figure numbers in increasing order
SortedSeq(S) ==
    IF S = {} THEN <<>>
    ELSE LET m == CHOOSE x \in S : \A y \in S : x <= y
         IN  <<m>> \o SortedSeq(S \ {m})

Range(s) == { s[k] : k \in DOMAIN s }

\* re.search(filename_pattern, src_file): the patterns of the model and
\* a file that generate_file_rst writes: the content it was made from,
\* what it shows
NoFile == [src |-> NoContent, kind |-> "none"]

\* whether each matches the example's path
Patterns == {"plot_", "never_"}
ReSearch(pattern, file) == <<pattern, file>> \in { <<"plot_", SrcFile>> }

\* extract_intro_and_title: the introduction taken from the docstring
extract_intro(docstring) == <<"intro", docstring>>

\* get_md5sum: the digest of a file's content (taken as collision free)
get_md5sum(content) == <<"md5", content>>

\* md5sum_is_current with the comparison always failing
md5sum_never_current(content, sidecar) == FALSE

\* md5sum_is_current: the sidecar exists and holds the file's digest
md5sum_is_current(content, sidecar) ==
    IF sidecar # NoMd5 THEN get_md5sum(content) = sidecar ELSE FALSE

(***************************************************************************)
(* Paths: a path is the sequence of its components; a path string is the   *)
(* sequence of its components and separators.                              *)
(***************************************************************************)
RECURSIVE CommonLen(_, _)
CommonLen(a, b) ==
    IF a = <<>> \/ b = <<>> \/ Head(a) # Head(b) THEN 0
    ELSE 1 + CommonLen(Tail(a), Tail(b))

RECURSIVE Join(_, _)
Join(parts, sep) ==
    IF parts = <<>> THEN <<>>
    ELSE IF Len(parts) = 1 THEN parts
    ELSE <<Head(parts), sep>> \o Join(Tail(parts), sep)

\* os.path.relpath(path, start), both absolute: ".." for every component of
\* start below the common prefix, then the rest of path, joined by os.sep
relpath(path, start, sep) ==
    LET c == CommonLen(path, start)
        ups == [k \in 1..(Len(start) - c) |-> ".."]
        rest == SubSeq(path, c + 1, Len(path))
        parts == ups \o rest
    IN  IF parts = <<>> THEN <<".">> ELSE Join(parts, sep)

\* str.replace(old, new) on separators
replace(str, old, new) ==
    [k \in DOMAIN str |-> IF str[k] = old THEN new ELSE str[k]]

RECURSIVE lstrip(_, _)
lstrip(str, ch) ==
    IF str # <<>> /\ Head(str) = ch THEN lstrip(Tail(str), ch) ELSE str

SrcRoot == <<"doc">>                       \* gallery_conf['src_dir']
TargetDir == <<"doc", "auto_examples">>    \* target_dir
\* image_path_template.format(n)
image_path(n) == TargetDir \o <<"images", ToString(n)>>

HLIST_HEADER == [tpl |-> "HLIST_HEADER", path |-> <<>>]
HLIST_IMAGE_TEMPLATE(name) == [tpl |-> "HLIST_IMAGE_TEMPLATE", path |-> name]
SINGLE_IMAGE(name) == [tpl |-> "SINGLE_IMAGE", path |-> name]

\* figure_rst without the replacement of os.sep by '/'
figure_rst_keeps_sep(figure_list, sources_dir, sep) ==
    LET figure_paths ==
            [k \in DOMAIN figure_list |->
                lstrip(relpath(figure_list[k], sources_dir, sep), "/")]
        images_rst ==
            IF Len(figure_paths) = 1 THEN <<SINGLE_IMAGE(figure_paths[1])>>
            ELSE IF Len(figure_paths) > 1
                 THEN <<HLIST_HEADER>> \o
                      [k \in DOMAIN figure_paths |->
                          HLIST_IMAGE_TEMPLATE(figure_paths[k])]
                 ELSE <<>>
    IN  [images_rst |-> images_rst, fig_num |-> Len(figure_list)]

\* figure_rst(figure_list, sources_dir) on a platform whose os.sep is sep
figure_rst(figure_list, sources_dir, sep) ==
    LET figure_paths ==
            [k \in DOMAIN figure_list |->
                lstrip(replace(relpath(figure_list[k], sources_dir, sep),
                               sep, "/"), "/")]
        images_rst ==
            IF Len(figure_paths) = 1 THEN <<SINGLE_IMAGE(figure_paths[1])>>
            ELSE IF Len(figure_paths) > 1
                 THEN <<HLIST_HEADER>> \o
                      [k \in DOMAIN figure_paths |->
                          HLIST_IMAGE_TEMPLATE(figure_paths[k])]
                 ELSE <<>>
    IN  [images_rst |-> images_rst, fig_num |-> Len(figure_list)]

(***************************************************************************)
(* save_figures: the numbers of the images it writes, in the order written *)
(***************************************************************************)
\* matplotlib figures: image number fig_count + fig_num for every open figure
MplImageNums(fig_count, open) ==
    LET nums == SortedSeq(open)
    IN  [k \in DOMAIN nums |-> fig_count + nums[k]]

\* mayavi scenes: numbered after fig_count + the number of matplotlib figures
MayaviImageNums(fig_count, n_mpl, n_scenes) ==
    LET last_matplotlib_fig_num == fig_count + n_mpl
    IN  [k \in 1..n_scenes |-> last_matplotlib_fig_num + k]

SavedImageNums(fig_count, open, n_scenes, find_mayavi) ==
    LET mpl == MplImageNums(fig_count, open)
    IN  mpl \o (IF find_mayavi
                THEN MayaviImageNums(fig_count, Len(mpl), n_scenes)
                ELSE <<>>)

(***************************************************************************)
(* handle_exception                                                        *)
(***************************************************************************)
Frame == "execute_code_block"
\* failures of compile() and of the codeop compiler (parse time)
CompileErrors ==
    { [etype |-> "SyntaxError", stack |-> <<Frame>>],
      [etype |-> "SyntaxError", stack |-> <<Frame, "codeop.__call__">>] }
\* failures raised by exec() of the example's code (run time)
RunErrors ==
    { [etype |-> "ZeroDivisionError", stack |-> <<Frame, "<module>">>],
      [etype |-> "ZeroDivisionError", stack |-> <<Frame, "<module>", "f">>],
      [etype |-> "SyntaxError", stack |-> <<Frame, "<module>">>],
      [etype |-> "SystemExit", stack |-> <<Frame, "<module>">>] }

\* isinstance(exc, Exception): what "except Exception" catches
IsException(exc) == exc.etype \in {"SyntaxError", "ZeroDivisionError"}
\* isinstance(exc, SyntaxError)
IsSyntaxError(exc) == exc.etype = "SyntaxError"

\* the traceback with the engine's frames removed
formatted_exception(exc) ==
    LET stack == IF IsSyntaxError(exc)
                 THEN SubSeq(exc.stack, 3, Len(exc.stack))
                 ELSE SubSeq(exc.stack, 2, Len(exc.stack))
    IN  [etype |-> exc.etype, stack |-> stack]

\* handle_exception that never re-raises
handle_exception_never_raises(conf) == FALSE

\* line 502: whether handle_exception re-raises
handle_exception_raises(conf) == conf.abort_on_example_error

\* line 505: the registry with the file's traceback stored
failing_examples_with(registry, src_file, traceback) ==
    [f \in (DOMAIN registry) \cup {src_file} |->
        IF f = src_file THEN traceback ELSE registry[f]]

\* handle_exception that leaves execute_script as it is
block_vars_flag_kept(bv) == bv

\* line 506: block_vars once the failure is recorded
block_vars_after_failure(bv) == [bv EXCEPT !.execute_script = FALSE]

\* lines 573-575: what the finally clause leaves as working directory and
\* as sys.stdout, given the values saved at entry and the current ones
finally_cwd_skipped(saved, current) == current
finally_cwd(saved, current) == saved
finally_stdout(saved, current) == saved

\* the md5 sidecar written whatever the flag
writes_md5_always(bv) == TRUE

\* line 694: whether the md5 sidecar is written
writes_md5(bv) == bv.execute_script

\* a cache hit that returns no introduction
cache_hit_result_no_intro(introduction) ==
    [kind |-> "return", intro |-> <<>>, time |-> 0, etype |-> "none"]

\* line 616: the result of a cache hit
cache_hit_result(introduction) ==
    [kind |-> "return", intro |-> introduction, time |-> 0,
     etype |-> "none"]

(***************************************************************************)
(* save_thumbnail                                                          *)
(***************************************************************************)
\* file_conf.get('thumbnail_number', 1)
thumbnail_number(conf) ==
    IF conf.thumbnail_number.given THEN conf.thumbnail_number
    ELSE [given |-> FALSE, isint |-> TRUE, val |-> 1]

BrokenThumb == [src |-> "broken_example.png", num |-> 0]
DefaultThumb == [src |-> "no_image.png", num |-> 0]
ImageThumb(n) == [src |-> "image", num |-> n]

\* save_thumbnail looking for the image before the registry
thumbnail_after_image_first(failing, n, image_files, thumb) ==
    IF n \in image_files THEN ImageThumb(n)
    ELSE IF failing THEN BrokenThumb
    ELSE IF thumb = NoThumb THEN DefaultThumb
    ELSE thumb

\* the thumbnail file after the if/elif chain and scale_image
thumbnail_after(failing, n, image_files, thumb) ==
    IF failing THEN BrokenThumb
    ELSE IF n \in image_files THEN ImageThumb(n)
    ELSE IF thumb = NoThumb THEN DefaultThumb
    ELSE thumb

(***************************************************************************)
(* Initial state: a fresh process, an example that was never built.        *)
(***************************************************************************)
\* lines 633-645: the namespace of a file's blocks
fresh_globals == {"__doc__", "__name__"}

\* the names that block number block binds in call number call
bound_by(call, block) == "v" \o ToString(call) \o "_" \o ToString(block)

\* exec given a copy of the namespace: its bindings are lost
globals_copied(namespace, binding) == namespace

\* line 540: exec binds in the namespace it is given
globals_after_exec(namespace, binding) == namespace \cup {binding}

\* execute_code_block that never skips a block
skips_block_never(bv) == FALSE

\* line 517: the example is not to be run
skips_block(bv) == ~ bv.execute_script

\* line 650: a file of more than two blocks is laid out as a notebook
is_example_notebook_like(blocks) == Len(blocks) > 2

\* the block's time assigned, not added
time_overwritten(total, rtime) == rtime

\* line 670: time_elapsed += rtime
time_after_block(total, rtime) == total + rtime

\* the footer only above the threshold
timing_reported_above(elapsed, min_reported_time) ==
    elapsed > min_reported_time

\* line 705: whether the timing footer is written
timing_reported(elapsed, min_reported_time) ==
    elapsed >= min_reported_time

\* save_thumbnail without the check of the setting
type_error_never(n) == FALSE

\* lines 399-401: the thumbnail_number setting is not an int
raises_type_error(n) == ~ n.isint

Confs ==
    [abort_on_example_error : BOOLEAN, plot_gallery : BOOLEAN,
     filename_pattern : Patterns, find_mayavi_figures : BOOLEAN,
     min_reported_time : Times]

\* an output of execute_code_block: stdout says that it has the section of
\* the printed text, quoted that the text of its traceback holds the words
\* sphx-glr-script-out
NoOutput == [kind |-> "none", images_rst |-> <<>>, stdout |-> FALSE,
             tb |-> NoExc, quoted |-> FALSE]

\* line 681: the words sphx-glr-script-out are somewhere in the output
names_script_out(code_output) == code_output.stdout \/ code_output.quoted
NoEcb == [cwd |-> "", orig_stdout |-> "", my_stdout |-> FALSE,
          code_output |-> NoOutput, rtime |-> 0, exc |-> NoExc]
NoBlockVars == [execute_script |-> FALSE, fig_count |-> 0]
NoFileConf == [thumbnail_number |->
                  [given |-> FALSE, isint |-> TRUE, val |-> 0]]
\* what is remembered of the call in progress
NoCur == [marked |-> FALSE, hit |-> FALSE, executed |-> {},
          failed_block |-> 0, md5_written |-> FALSE, entry_argv |-> <<>>,
          call_cwd |-> "", call_stdout |-> "", call_failing |-> <<>>,
          raised |-> NoExc, ecb_path |-> "none",
          used |-> <<>>, thumb_pre |-> NoThumb, thumb_done |-> FALSE,
          observed |-> <<>>, ok_time |-> 0, call_images |-> {},
          call_fig_count |-> 0, doc |-> <<>>]
\* what is remembered of the call before it
NoLast == [valid |-> FALSE, unchanged |-> FALSE, marked |-> FALSE,
           hit |-> FALSE, failed |-> FALSE, md5_written |-> FALSE,
           executed |-> 0, ret |-> NoRet]

\* the two kinds of behaviour
Scopes == { [detail |-> TRUE, runs |-> 1],
            [detail |-> FALSE, runs |-> MaxRuns] }

NoCall == [fn |-> "none"]

\* a fresh process, an example that was never built, no call in progress
InitRest ==
    /\ failing_examples = <<>>
    /\ cwd = StartDir
    /\ sys_stdout = OrigStdout
    /\ sys_argv = ArgvInit
    /\ fignums = {}
    /\ scenes = 0
    /\ example_file = NoContent
    /\ md5_file = NoMd5
    /\ images = {}
    /\ thumb_file = NoThumb
    /\ thumb_dir = FALSE
    /\ rst_file = NoFile
    /\ notebook_file = NoFile
    /\ pc = "idle"
    /\ script_blocks = <<>>
    /\ file_conf = NoFileConf
    /\ intro = <<>>
    /\ block_idx = 0
    /\ block_vars = NoBlockVars
    /\ argv_orig = <<>>
    /\ time_elapsed = 0
    /\ example_rst = <<>>
    /\ example_globals = {}
    /\ ecb = NoEcb
    /\ ret = NoRet
    /\ runs = 0
    /\ cur = NoCur
    /\ last = NoLast

Init ==
    /\ scope \in Scopes
    /\ gallery_conf \in {c \in Confs :
                            scope.detail \/ (/\ c.min_reported_time = 0
                                             /\ ~ c.find_mayavi_figures)}
    /\ src_content \in IF scope.detail THEN Contents ELSE SeqContents
    /\ pure = NoCall
    /\ InitRest

(***************************************************************************)
(* The environment between two calls.                                      *)
(***************************************************************************)
\* the author edits the example's source
EditSource ==
    /\ pc = "idle"
    /\ runs >= 1
    /\ runs < scope.runs
    /\ last.unchanged
    /\ \E c \in SeqContents \ {src_content} : src_content' = c
    /\ last' = [last EXCEPT !.unchanged = FALSE]
    /\ UNCHANGED <<envvars, confvars, procvars, example_file, md5_file, images,
                   thumb_file, thumb_dir, rst_file, notebook_file, pc, gfrvars, ecb,
                   ret, runs, cur>>

\* a new build: a new process, the files stay; plot_gallery may have been
\* switched in conf.py
NewBuild ==
    /\ pc = "idle"
    /\ runs >= 1
    /\ runs < scope.runs
    /\ \E c \in {gallery_conf,
                 [gallery_conf EXCEPT !.plot_gallery = ~ @]} :
          /\ gallery_conf' = c
          /\ last' = [last EXCEPT !.unchanged = @ /\ c = gallery_conf]
    /\ failing_examples' = <<>>
    /\ cwd' = StartDir
    /\ sys_stdout' = OrigStdout
    /\ sys_argv' = ArgvInit
    /\ fignums' = {}
    /\ scenes' = 0
    /\ UNCHANGED <<envvars, filevars, pc, gfrvars, ecb, ret, runs, cur>>

(***************************************************************************)
(* generate_file_rst                                                       *)
(***************************************************************************)
\* lines 608-613: copy the source, parse it, extract the introduction
GfrParse ==
    /\ pc = "idle"
    /\ runs < scope.runs
    /\ example_file' = src_content
    /\ script_blocks' = src_content.blocks
    /\ file_conf' = [thumbnail_number |-> src_content.thumbnail_number]
    /\ intro' = extract_intro(src_content.doc)
    /\ runs' = runs + 1
    /\ cur' = [NoCur EXCEPT !.entry_argv = sys_argv]
    /\ ret' = NoRet
    /\ pc' = "cache_check"
    /\ UNCHANGED <<envvars, confvars, procvars, src_content, md5_file, images,
                   thumb_file, thumb_dir, rst_file, notebook_file, block_idx,
                   block_vars, argv_orig, time_elapsed, example_rst,
                   example_globals, ecb, last>>

\* lines 615-616: the cache hit
GfrCacheHit ==
    /\ pc = "cache_check"
    /\ md5sum_is_current(example_file, md5_file)
    /\ ret' = cache_hit_result(intro)
    /\ cur' = [cur EXCEPT !.hit = TRUE]
    /\ pc' = "done"
    /\ UNCHANGED <<envvars, confvars, procvars, filevars, gfrvars, ecb, runs,
                   last>>

\* lines 618-661: the image directory, the execution policy, the
\* namespace, block_vars and the sys.argv override
GfrSetup ==
    /\ pc = "cache_check"
    /\ ~ md5sum_is_current(example_file, md5_file)
    /\ LET execute_script ==
              ReSearch(gallery_conf.filename_pattern, SrcFile)
              /\ gallery_conf.plot_gallery
       IN  /\ block_vars' = [execute_script |-> execute_script,
                             fig_count |-> 0]
           /\ argv_orig' = sys_argv
           /\ sys_argv' = IF execute_script THEN <<SrcFile>> ELSE sys_argv
           /\ cur' = [cur EXCEPT !.marked = execute_script]
    /\ time_elapsed' = 0
    /\ example_rst' = <<[t |-> "ref", b |-> 0]>>
    /\ example_globals' = fresh_globals
    /\ block_idx' = 1
    /\ pc' = "loop"
    /\ UNCHANGED <<envvars, confvars, cwd, sys_stdout, fignums, scenes, filevars,
                   script_blocks, file_conf, intro, ecb, ret, runs, last>>

\* lines 663, 686-687: a text block goes to the document as it is
GfrTextBlock ==
    /\ pc = "loop"
    /\ block_idx <= Len(script_blocks)
    /\ script_blocks[block_idx] = "text"
    /\ example_rst' = Append(example_rst, [t |-> "text", b |-> block_idx])
    /\ block_idx' = block_idx + 1
    /\ UNCHANGED <<envvars, confvars, procvars, filevars, pc, script_blocks,
                   file_conf, intro, block_vars, argv_orig, time_elapsed,
                   example_globals, ecb, ret, histvars>>

\* lines 664-668: a code block: the call of execute_code_block
GfrCallEcb ==
    /\ pc = "loop"
    /\ block_idx <= Len(script_blocks)
    /\ script_blocks[block_idx] = "code"
    /\ ecb' = NoEcb
    /\ cur' = [cur EXCEPT !.call_cwd = cwd, !.call_stdout = sys_stdout,
                          !.call_failing = failing_examples,
                          !.call_images = images,
                          !.call_fig_count = block_vars.fig_count,
                          !.raised = NoExc, !.ecb_path = "none"]
    /\ pc' = "ecb"
    /\ UNCHANGED <<envvars, confvars, procvars, filevars, gfrvars, ret, runs,
                   last>>

(***************************************************************************)
(* execute_code_block                                                      *)
(***************************************************************************)
\* lines 514-518: the example is not to be run: return '', 0
EcbSkip ==
    /\ pc = "ecb"
    /\ skips_block(block_vars)
    /\ ecb' = [ecb EXCEPT !.code_output = [NoOutput EXCEPT !.kind = "empty"],
                          !.rtime = 0]
    /\ cur' = [cur EXCEPT !.ecb_path = "skip"]
    /\ pc' = "ecb_ret"
    /\ UNCHANGED <<envvars, confvars, procvars, filevars, gfrvars, ret, runs,
                   last>>

\* lines 520-531: close the open figures, remember the working directory
\* and the stream, change to the example's directory, install the tee
EcbEnter ==
    /\ pc = "ecb"
    /\ ~ skips_block(block_vars)
    /\ fignums' = {}
    /\ ecb' = [ecb EXCEPT !.cwd = cwd, !.orig_stdout = sys_stdout]
    /\ cwd' = SrcDir
    /\ sys_stdout' = Tee
    /\ pc' = "try"
    /\ UNCHANGED <<envvars, confvars, sys_argv, scenes, filevars, gfrvars, ret,
                   histvars>>

\* what the example's code can do to the process before it ends or raises:
\* open figures and scenes, change the directory, replace sys.stdout
\* (scenes are only looked at when find_mayavi_figures is set)
ExampleEffects ==
    /\ fignums' \in IF scope.detail THEN SUBSET FigNums ELSE {{}, {1}}
    /\ scenes' \in IF gallery_conf.find_mayavi_figures /\ scope.detail
                   THEN scenes..MaxScenes ELSE {scenes}
    /\ \E tampered \in IF scope.detail THEN BOOLEAN ELSE {FALSE} :
          /\ cwd' = IF tampered THEN "elsewhere" ELSE SrcDir
          /\ sys_stdout' = IF tampered THEN "user_stream" ELSE Tee

\* lines 533-542: compile the block and exec it in the namespace
EcbTry ==
    /\ pc = "try"
    /\ \/ \* compile() or the compiler raises
          /\ \E e \in CompileErrors :
                /\ ecb' = [ecb EXCEPT !.exc = e]
                /\ cur' = [cur EXCEPT !.executed = @ \cup {block_idx},
                                      !.raised = e]
          /\ pc' = "except"
          /\ UNCHANGED <<cwd, sys_stdout, fignums, scenes, example_globals>>
       \/ \* exec raises, in a block that binds nothing before it does
          /\ \E e \in RunErrors :
                /\ ecb' = [ecb EXCEPT !.exc = e]
                /\ cur' = [cur EXCEPT
                              !.executed = @ \cup {block_idx},
                              !.raised = e,
                              !.observed =
                                  Append(@, [b |-> block_idx,
                                             namespace |-> example_globals])]
                /\ pc' = IF IsException(e) THEN "except" ELSE "finally"
          /\ UNCHANGED example_globals
          /\ ExampleEffects
       \/ \* exec returns
          /\ \E t \in IF scope.detail THEN Times ELSE {1},
                printed \in IF scope.detail THEN BOOLEAN ELSE {FALSE} :
                /\ ecb' = [ecb EXCEPT !.rtime = t, !.my_stdout = printed]
                /\ cur' = [cur EXCEPT
                              !.executed = @ \cup {block_idx},
                              !.ok_time = @ + t,
                              !.observed =
                                  Append(@, [b |-> block_idx,
                                             namespace |-> example_globals])]
          /\ example_globals' =
                globals_after_exec(example_globals, bound_by(runs, block_idx))
          /\ pc' = "else"
          /\ ExampleEffects
    /\ UNCHANGED <<envvars, confvars, sys_argv, filevars, script_blocks,
                   file_conf, intro, block_idx, block_vars, argv_orig,
                   time_elapsed, example_rst, ret, runs, last>>

\* lines 543-554 with handle_exception (483-508)
EcbExcept ==
    /\ pc = "except"
    /\ sys_stdout' = ecb.orig_stdout
    /\ IF handle_exception_raises(gallery_conf)
       THEN /\ cur' = [cur EXCEPT !.ecb_path = "abort"]
            /\ UNCHANGED <<failing_examples, block_vars, ecb>>
       ELSE /\ failing_examples' =
                  failing_examples_with(failing_examples, SrcFile,
                                        formatted_exception(ecb.exc))
            /\ block_vars' = block_vars_after_failure(block_vars)
            /\ \E quoted \in IF scope.detail THEN BOOLEAN ELSE {FALSE} :
                  \* the message of the exception and the source line in
                  \* the traceback are the example's
                  ecb' = [ecb EXCEPT
                             !.exc = NoExc,
                             !.code_output =
                                 [NoOutput EXCEPT
                                     !.kind = "traceback",
                                     !.tb = formatted_exception(ecb.exc),
                                     !.quoted = quoted]]
            /\ cur' = [cur EXCEPT !.ecb_path = "recorded",
                                  !.failed_block = block_idx]
    /\ pc' = "finally"
    /\ UNCHANGED <<envvars, gallery_conf, cwd, sys_argv, fignums, scenes,
                   filevars,
                   script_blocks, file_conf, intro, block_idx, argv_orig,
                   time_elapsed, example_rst, example_globals, ret, runs,
                   last>>

\* lines 556-571 with save_figures (282-315)
EcbElse ==
    /\ pc = "else"
    /\ sys_stdout' = ecb.orig_stdout
    /\ cwd' = ecb.cwd
    /\ LET nums == SavedImageNums(block_vars.fig_count, fignums, scenes,
                                  gallery_conf.find_mayavi_figures)
           paths == [k \in DOMAIN nums |-> image_path(nums[k])]
       IN  \/ \* savefig raises at the (j+1)-th figure
              /\ \E j \in 0..(Len(nums) - 1) :
                    /\ images' = images \cup { nums[k] : k \in 1..j }
                    /\ cur' = [cur EXCEPT
                                  !.used = @ \o SubSeq(nums, 1, j),
                                  !.ecb_path = "save_error"]
              /\ ecb' = [ecb EXCEPT
                            !.exc = [etype |-> "IOError",
                                     stack |-> <<Frame, "save_figures">>]]
              /\ UNCHANGED <<scenes, block_vars>>
           \/ \* every figure is saved
              /\ images' = images \cup Range(nums)
              /\ scenes' = IF gallery_conf.find_mayavi_figures
                           THEN 0 ELSE scenes
              /\ block_vars' =
                    [block_vars EXCEPT !.fig_count = @ + Len(nums)]
              /\ ecb' = [ecb EXCEPT
                            !.code_output =
                                [NoOutput EXCEPT
                                    !.kind = "output",
                                    !.stdout = ecb.my_stdout,
                                    !.images_rst =
                                        figure_rst(paths, SrcRoot,
                                                   "/").images_rst]]
              /\ cur' = [cur EXCEPT !.used = @ \o nums, !.ecb_path = "ok"]
    /\ pc' = "finally"
    /\ UNCHANGED <<envvars, confvars, sys_argv, fignums, src_content,
                   example_file,
                   md5_file, thumb_file, thumb_dir, rst_file, notebook_file,
                   script_blocks, file_conf, intro, block_idx, argv_orig,
                   time_elapsed, example_rst, example_globals, ret, runs,
                   last>>

\* lines 573-577: the finally clause, then return or let the failure out
EcbFinally ==
    /\ pc = "finally"
    /\ cwd' = finally_cwd(ecb.cwd, cwd)
    /\ sys_stdout' = finally_stdout(ecb.orig_stdout, sys_stdout)
    /\ IF ecb.exc # NoExc
       THEN /\ pc' = "ecb_raise"
            /\ cur' = [cur EXCEPT
                          !.ecb_path = IF @ = "none" THEN "base_exception"
                                       ELSE @]
       ELSE /\ pc' = "ecb_ret"
            /\ UNCHANGED cur
    /\ UNCHANGED <<envvars, confvars, sys_argv, fignums, scenes, filevars,
                   gfrvars,
                   ecb, ret, runs, last>>

(***************************************************************************)
(* generate_file_rst, continued                                            *)
(***************************************************************************)
Raised(etype) == [kind |-> "raise", intro |-> <<>>, time |-> 0,
                  etype |-> etype]

\* lines 670-684: add the block's time, put the code and its output in
\* the document in the order of the file's layout
GfrAfterEcb ==
    /\ pc = "ecb_ret"
    /\ time_elapsed' = time_after_block(time_elapsed, ecb.rtime)
    /\ LET code == [t |-> "code", b |-> block_idx]
           out == [t |-> ecb.code_output.kind, b |-> block_idx]
           spacer == [t |-> "spacer", b |-> block_idx]
       IN  example_rst' =
              IF is_example_notebook_like(script_blocks)
              THEN example_rst \o <<code, out>>
              ELSE IF names_script_out(ecb.code_output)
                   THEN example_rst \o <<out, spacer, code>>
                   ELSE example_rst \o <<out, code>>
    /\ block_idx' = block_idx + 1
    /\ pc' = "loop"
    /\ UNCHANGED <<envvars, confvars, procvars, filevars, script_blocks,
                   file_conf,
                   intro, block_vars, argv_orig, example_globals, ecb, ret,
                   histvars>>

\* lines 665-668: nothing in generate_file_rst catches a failure that
\* leaves execute_code_block: the call ends with it
GfrPropagate ==
    /\ pc = "ecb_raise"
    /\ ret' = Raised(ecb.exc.etype)
    /\ pc' = "done"
    /\ UNCHANGED <<envvars, confvars, procvars, filevars, gfrvars, ecb,
                   histvars>>

\* lines 689-690: after the last block, sys.argv back and clean_modules
GfrRestoreArgv ==
    /\ pc = "loop"
    /\ block_idx > Len(script_blocks)
    /\ sys_argv' = argv_orig
    /\ pc' = "md5"
    /\ UNCHANGED <<envvars, confvars, cwd, sys_stdout, fignums, scenes, filevars,
                   gfrvars, ecb, ret, histvars>>

\* lines 692-696: the md5 sidecar
GfrWriteMd5 ==
    /\ pc = "md5"
    /\ IF writes_md5(block_vars)
       THEN /\ md5_file' = get_md5sum(example_file)
            /\ cur' = [cur EXCEPT !.md5_written = TRUE]
       ELSE UNCHANGED <<md5_file, cur>>
    /\ pc' = "thumb"
    /\ UNCHANGED <<envvars, confvars, procvars, src_content, example_file,
                   images,
                   thumb_file, thumb_dir, rst_file, notebook_file, gfrvars, ecb, ret,
                   runs, last>>

\* line 698: save_thumbnail (395-422)
GfrSaveThumbnail ==
    /\ pc = "thumb"
    /\ LET n == thumbnail_number(file_conf)
       IN  IF raises_type_error(n)
           THEN /\ ret' = Raised("TypeError")
                /\ pc' = "done"
                /\ UNCHANGED <<thumb_file, thumb_dir, cur>>
           ELSE /\ thumb_dir' = TRUE
                /\ thumb_file' =
                      thumbnail_after(SrcFile \in DOMAIN failing_examples,
                                      n.val, images, thumb_file)
                /\ cur' = [cur EXCEPT !.thumb_pre = thumb_file,
                                      !.thumb_done = TRUE]
                /\ pc' = "write"
                /\ UNCHANGED ret
    /\ UNCHANGED <<envvars, confvars, procvars, src_content, example_file,
                   md5_file,
                   images, rst_file, notebook_file, gfrvars, ecb, runs,
                   last>>

\* what is kept of a written document: whether it shows a traceback, the
\* output of executed blocks, or only code that was not run
DocKind(text) ==
    IF \E k \in DOMAIN text : text[k].t = "traceback" THEN "failed"
    ELSE IF \E k \in DOMAIN text : text[k].t = "output" THEN "executed"
    ELSE "not_executed"

\* lines 700-723: the notebook, the footers, the document, the result
GfrWriteRst ==
    /\ pc = "write"
    /\ notebook_file' = [src |-> example_file, kind |-> "notebook"]
    /\ LET timing == IF timing_reported(time_elapsed,
                                        gallery_conf.min_reported_time)
                     THEN <<[t |-> "timing", b |-> 0]>> ELSE <<>>
           text == example_rst \o timing \o
                   <<[t |-> "download", b |-> 0],
                     [t |-> "signature", b |-> 0]>>
       IN  /\ rst_file' = [src |-> example_file, kind |-> DocKind(text)]
           /\ cur' = [cur EXCEPT !.doc = text]
    /\ ret' = [kind |-> "return", intro |-> intro, time |-> time_elapsed,
               etype |-> "none"]
    /\ pc' = "done"
    /\ UNCHANGED <<envvars, confvars, procvars, src_content, example_file,
                   md5_file,
                   images, thumb_file, thumb_dir, gfrvars, ecb, runs, last>>

\* the call is over: its frames are gone, its outcome is remembered
GfrExit ==
    /\ pc = "done"
    /\ last' = [valid |-> TRUE, unchanged |-> TRUE, marked |-> cur.marked,
                hit |-> cur.hit, failed |-> cur.failed_block # 0,
                md5_written |-> cur.md5_written,
                executed |-> Cardinality(cur.executed), ret |-> ret]
    /\ cur' = NoCur
    /\ ret' = NoRet
    /\ ecb' = NoEcb
    /\ script_blocks' = <<>>
    /\ file_conf' = NoFileConf
    /\ intro' = <<>>
    /\ block_idx' = 0
    /\ block_vars' = NoBlockVars
    /\ argv_orig' = <<>>
    /\ time_elapsed' = 0
    /\ example_rst' = <<>>
    /\ example_globals' = {}
    /\ pc' = "idle"
    /\ UNCHANGED <<envvars, confvars, procvars, filevars, runs>>

Next ==
    \/ EditSource
    \/ NewBuild
    \/ GfrParse
    \/ GfrCacheHit
    \/ GfrSetup
    \/ GfrTextBlock
    \/ GfrCallEcb
    \/ EcbSkip
    \/ EcbEnter
    \/ EcbTry
    \/ EcbExcept
    \/ EcbElse
    \/ EcbFinally
    \/ GfrAfterEcb
    \/ GfrPropagate
    \/ GfrRestoreArgv
    \/ GfrWriteMd5
    \/ GfrSaveThumbnail
    \/ GfrWriteRst
    \/ GfrExit

Spec == Init /\ [][Next]_vars

\* the cache over a longer sequence of calls and builds on one example
\* file, the blocks with their coarse outcomes
InitCache ==
    /\ scope = [detail |-> FALSE, runs |-> MaxBuilds]
    /\ gallery_conf \in {c \in Confs : /\ c.min_reported_time = 0
                                       /\ ~ c.find_mayavi_figures}
    /\ src_content \in SeqContents
    /\ pure = NoCall
    /\ InitRest

SpecCache == InitCache /\ [][Next]_vars

(***************************************************************************)
(* figure_rst on its own: any list of figure paths, any sources_dir, on a  *)
(* platform with either separator.                                         *)
(***************************************************************************)
FigurePaths ==
    { image_path(1), image_path(2), <<"doc", "fig">>, <<"tmp", "fig">> }
SourcesDirs == { SrcRoot, <<"doc", "source">> }
Separators == { "/", "\\" }

RECURSIVE SeqsUpTo(_, _)
\* the sequences over S of length at most n
SeqsUpTo(S, n) ==
    IF n = 0 THEN { <<>> }
    ELSE LET shorter == SeqsUpTo(S, n - 1)
         IN  shorter \cup { Append(q, x) : q \in shorter, x \in S }

NoScope == [detail |-> FALSE, runs |-> 0]

InitFigureRst ==
    /\ scope = NoScope
    /\ gallery_conf = [abort_on_example_error |-> FALSE,
                       plot_gallery |-> FALSE, filename_pattern |-> "plot_",
                       find_mayavi_figures |-> FALSE,
                       min_reported_time |-> 0]
    /\ src_content = NoContent
    /\ pure \in { [fn |-> "figure_rst", figure_list |-> l,
                    sources_dir |-> d, sep |-> sp, done |-> FALSE,
                    images_rst |-> <<>>, fig_num |-> 0] :
                     l \in SeqsUpTo(FigurePaths, MaxFigs),
                     d \in SourcesDirs, sp \in Separators }
    /\ InitRest

FigureRstCall ==
    /\ pure.fn = "figure_rst"
    /\ ~ pure.done
    /\ LET r == figure_rst(pure.figure_list, pure.sources_dir, pure.sep)
       IN  pure' = [pure EXCEPT !.done = TRUE,
                                !.images_rst = r.images_rst,
                                !.fig_num = r.fig_num]
    /\ UNCHANGED <<confvars, procvars, filevars, pc, gfrvars, ecb, ret,
                   histvars, scope>>

NextFigureRst == FigureRstCall

SpecFigureRst == InitFigureRst /\ [][NextFigureRst]_vars

(***************************************************************************)
(* py_source_parser: a source file is its lines.  A line is known by its   *)
(* kind: "code" (a line of code), "blank", "header" (20 '#' at column 0),  *)
(* "hash" (a lone '#'), "comment" ('# text': one blank in it), "conf_ok"   *)
(* ('# sphinx_galleria_a = 1') and "conf_bad" ("# sphinx_galleria_b = 'x").*)
(* final_newline tells whether the last line of the file ends with '\n'.   *)
(***************************************************************************)
LineKinds == {"code", "blank", "header", "hash", "comment", "conf_ok",
              "conf_bad"}
\* lines that start with '#'
HashKinds == {"header", "hash", "comment", "conf_ok", "conf_bad"}
\* lines that start with '#' and hold a blank after it
SpaceKinds == {"comment", "conf_ok", "conf_bad"}
\* lines that hold a directive
ConfKinds == {"conf_ok", "conf_bad"}

SYNTAX_ERROR_DOCSTRING == "SyntaxError: Example script with invalid Python syntax"

\* the sources the parser is given: lines of comments (pre), the
\* docstring if any (doc_lines lines of it), at most max_rest lines after
ParserSources(max_rest) ==
    { [syntax_ok |-> ok, docstring |-> d, pre |-> p, doc_lines |-> n,
       rest |-> r, final_newline |-> nl] :
        ok \in BOOLEAN, d \in {"none", "empty", "text"}, p \in 0..1,
        n \in 0..2, r \in SeqsUpTo(LineKinds, max_rest),
        nl \in BOOLEAN }

\* a module without docstring has no docstring lines; a docstring that is
\* not empty needs a line
WellFormedSource(src) ==
    /\ src.docstring = "none" <=> src.doc_lines = 0
    /\ src.docstring = "none" => src.pre = 0

\* parse_source_file's content, as lines
ContentLines(src) ==
    [k \in 1..src.pre |-> "comment"] \o [k \in 1..src.doc_lines |-> "code"]
        \o src.rest

\* line i of lines is followed by '\n'
HasNewline(lines, final_newline, i) == i < Len(lines) \/ final_newline

RECURSIVE NextHeader(_, _, _)
\* the first line from index from on that header_line and the \s after it
\* match, 0 if there is none
NextHeader(lines, final_newline, from) ==
    IF from > Len(lines) THEN 0
    ELSE IF lines[from] = "header" /\ HasNewline(lines, final_newline, from)
         THEN from
    ELSE NextHeader(lines, final_newline, from + 1)

RECURSIVE TextEnd(_, _, _)
\* the last of the whole lines that text_content takes after line j
TextEnd(lines, final_newline, j) ==
    IF /\ j + 1 <= Len(lines)
       /\ lines[j + 1] \in HashKinds
       /\ HasNewline(lines, final_newline, j + 1)
    THEN TextEnd(lines, final_newline, j + 1)
    ELSE j

\* text_content also takes the beginning of the last line of the file,
\* up to its last blank, when that line starts with '#', holds a blank
\* and has no '\n'
TakesPartOfLine(lines, final_newline, j) ==
    /\ j + 1 = Len(lines)
    /\ ~ final_newline
    /\ lines[j + 1] \in SpaceKinds

\* content.strip() is not empty
NonBlank(lines, from, to) == \E k \in from..to : lines[k] # "blank"

\* the header advances lineno by one
after_header(lineno) == lineno + 1

RECURSIVE SplitFrom(_, _, _, _, _, _)
\* lines 168-186: the loop over the matches and the remaining content;
\* pos is the first line not yet taken, tail tells that the beginning of
\* this line is taken already, offset is the number of lines of the file
\* before lines.  A block is known by its label, the lineno recorded for
\* it and the numbers in the file of the first and of the last line it
\* holds, whole or in part.
SplitFrom(lines, final_newline, pos, tail, lineno, offset) ==
    LET h == IF tail THEN 0 ELSE NextHeader(lines, final_newline, pos)
    IN  IF h = 0
        THEN IF tail \/ NonBlank(lines, pos, Len(lines))
             THEN <<[label |-> "code", lineno |-> lineno,
                     first |-> offset + pos,
                     upto |-> offset + Len(lines)]>>
             ELSE <<>>
        ELSE LET code == IF NonBlank(lines, pos, h - 1)
                         THEN <<[label |-> "code", lineno |-> lineno,
                                 first |-> offset + pos,
                                 upto |-> offset + h - 1]>>
                         ELSE <<>>
                 text_lineno == after_header(lineno + (h - pos))
                 e == TextEnd(lines, final_newline, h)
                 part == TakesPartOfLine(lines, final_newline, e)
                 has_text ==
                     \/ \E k \in (h + 1)..e : lines[k] # "hash"
                     \/ part /\ lines[e + 1] \in ConfKinds
                 text == IF has_text
                         THEN <<[label |-> "text", lineno |-> text_lineno,
                                 first |-> offset + h + 1,
                                 upto |-> IF part THEN offset + e + 1
                                          ELSE offset + e]>>
                         ELSE <<>>
             IN  code \o text \o
                 SplitFrom(lines, final_newline, e + 1, part,
                           text_lineno + (e - h), offset)

\* lines 9-12: the module imports no logger and defines none
logger_defined == FALSE

\* lines 123-143: the directives of the content; the warning about an
\* invalid value needs the logger
extract_file_config(lines) ==
    IF \E k \in DOMAIN lines : lines[k] = "conf_bad"
    THEN IF logger_defined
         THEN [kind |-> "return",
               file_conf |-> IF \E k \in DOMAIN lines : lines[k] = "conf_ok"
                             THEN {"a"} ELSE {}]
         ELSE [kind |-> "raise", etype |-> "NameError"]
    ELSE [kind |-> "return",
          file_conf |-> IF \E k \in DOMAIN lines : lines[k] = "conf_ok"
                        THEN {"a"} ELSE {}]

\* lines 57-120: the docstring, the rest of the content and the line
\* where the rest starts; rest is content.split('\n', lineno)[-1], which
\* is the docstring's last line when no '\n' follows the docstring
get_docstring_and_rest(src) ==
    IF ~ src.syntax_ok
    THEN [kind |-> "return", docstring |-> SYNTAX_ERROR_DOCSTRING,
          rest |-> ContentLines(src), lineno |-> 1, offset |-> 0]
    ELSE IF src.docstring \in {"none", "empty"}
    THEN [kind |-> "raise", etype |-> "ValueError"]
    ELSE LET ds_last == src.pre + src.doc_lines
         IN  IF src.rest = <<>> /\ ~ src.final_newline
             THEN [kind |-> "return", docstring |-> "docstring",
                   rest |-> <<"code">>, lineno |-> ds_last + 1,
                   offset |-> ds_last - 1]
             ELSE [kind |-> "return", docstring |-> "docstring",
                   rest |-> src.rest, lineno |-> ds_last + 1,
                   offset |-> ds_last]

\* lines 146-188
split_code_and_text_blocks(src) ==
    LET d == get_docstring_and_rest(src)
    IN  IF d.kind = "raise" THEN [kind |-> "raise", etype |-> d.etype,
                                   blocks |-> <<>>]
        ELSE LET conf == extract_file_config(d.rest)
             IN  IF conf.kind = "raise"
                 THEN [kind |-> "raise", etype |-> conf.etype,
                       blocks |-> <<>>]
                 ELSE LET rest_blocks ==
                              SplitFrom(d.rest, src.final_newline, 1, FALSE,
                                        d.lineno, d.offset)
                      IN  [kind |-> "return", etype |-> "none",
                           file_conf |-> conf.file_conf,
                           blocks |->
                               <<[label |-> "text", lineno |-> 1,
                                  first |-> 1,
                                  upto |-> IF src.syntax_ok
                                           THEN src.pre + src.doc_lines
                                           ELSE 0,
                                  content |-> d.docstring]>>
                               \o [k \in DOMAIN rest_blocks |->
                                      [label |-> rest_blocks[k].label,
                                       lineno |-> rest_blocks[k].lineno,
                                       first |-> rest_blocks[k].first,
                                       upto |-> rest_blocks[k].upto,
                                       content |-> "rest"]]]

\* the parser on its own: generate_file_rst's call at line 612 and, when
\* the parser returns, the steps up to the cache check of line 615
InitParser ==
    /\ scope = NoScope
    /\ gallery_conf = [abort_on_example_error |-> FALSE,
                       plot_gallery |-> FALSE, filename_pattern |-> "plot_",
                       find_mayavi_figures |-> FALSE,
                       min_reported_time |-> 0]
    /\ src_content = NoContent
    /\ \E src \in ParserSources(MaxRestLines) :
          /\ WellFormedSource(src)
          /\ pure = [fn |-> "split_code_and_text_blocks", src |-> src,
                     stage |-> "called",
                     result |-> [kind |-> "none", etype |-> "none",
                                 blocks |-> <<>>]]
    /\ InitRest

ParserCall ==
    /\ pure.fn = "split_code_and_text_blocks"
    /\ pure.stage = "called"
    /\ pure' = [pure EXCEPT !.stage = "parsed",
                            !.result = split_code_and_text_blocks(pure.src)]
    /\ UNCHANGED <<scope, confvars, procvars, filevars, pc, gfrvars, ecb,
                   ret, histvars>>

ParserCacheCheck ==
    /\ pure.fn = "split_code_and_text_blocks"
    /\ pure.stage = "parsed"
    /\ pure.result.kind = "return"
    /\ pure' = [pure EXCEPT !.stage = "cache_check"]
    /\ UNCHANGED <<scope, confvars, procvars, filevars, pc, gfrvars, ecb,
                   ret, histvars>>

NextParser == ParserCall \/ ParserCacheCheck

SpecParser == InitParser /\ [][NextParser]_vars

(***************************************************************************)
(* LoggingTee on its own: any sequence of write and flush calls.  A text   *)
(* is the sequence of its characters: a letter, the line endings '\n' and  *)
(* '\r', and the form feed, where splitlines() ends a line as well.        *)
(***************************************************************************)
TeeChars == {"a", "\n", "\r", "\f"}
\* the characters where str.splitlines ends a line
LineBoundaries == {"\n", "\r", "\f"}

RECURSIVE splitlines_from(_, _, _, _)
\* str.splitlines from character i on, line being the line in progress
\* and acc the lines before it; '\r\n' ends one line
splitlines_from(data, i, line, acc) ==
    IF i > Len(data)
    THEN IF line # <<>> THEN Append(acc, line) ELSE acc
    ELSE IF data[i] = "\r" /\ i < Len(data) /\ data[i + 1] = "\n"
    THEN splitlines_from(data, i + 2, <<>>, Append(acc, line))
    ELSE IF data[i] \in LineBoundaries
    THEN splitlines_from(data, i + 1, <<>>, Append(acc, line))
    ELSE splitlines_from(data, i + 1, Append(line, data[i]), acc)

splitlines(data) == splitlines_from(data, 1, <<>>, <<>>)

\* lines 103-108: logged is the sequence of the lines given to
\* logger.verbose, announced the number of 'Output from' messages
NewTee == [fn |-> "LoggingTee", output_file |-> <<>>, first_write |-> TRUE,
           logger_buffer |-> <<>>, logged |-> <<>>, announced |-> 0,
           calls |-> <<>>]

\* flush that leaves the buffer as it is
flushed_buffer_kept(buffer) == buffer

\* line 135: the buffer after it was logged by flush
flushed_buffer(buffer) == <<>>

\* lines 110-129
tee_write(tee, data) ==
    LET joined == tee.logger_buffer \o data
        lines == splitlines(joined)
        incomplete == /\ joined # <<>>
                      /\ joined[Len(joined)] \notin {"\r", "\n"}
    IN  [tee EXCEPT
            !.output_file = Append(@, data),
            !.first_write = FALSE,
            !.announced = IF tee.first_write THEN @ + 1 ELSE @,
            !.logger_buffer = IF incomplete THEN lines[Len(lines)]
                              ELSE <<>>,
            !.logged = IF incomplete
                       THEN @ \o SubSeq(lines, 1, Len(lines) - 1)
                       ELSE @ \o lines,
            !.calls = Append(@, [op |-> "write", data |-> data])]

\* lines 131-135
tee_flush(tee) ==
    IF tee.logger_buffer # <<>>
    THEN [tee EXCEPT
             !.logged = Append(@, tee.logger_buffer),
             !.logger_buffer = flushed_buffer(@),
             !.calls = Append(@, [op |-> "flush", data |-> <<>>])]
    ELSE [tee EXCEPT
             !.calls = Append(@, [op |-> "flush", data |-> <<>>])]

RECURSIVE Flat(_)
\* the sequences of s one after the other
Flat(s) == IF s = <<>> THEN <<>> ELSE Head(s) \o Flat(Tail(s))

InitTee ==
    /\ scope = NoScope
    /\ gallery_conf = [abort_on_example_error |-> FALSE,
                       plot_gallery |-> FALSE, filename_pattern |-> "plot_",
                       find_mayavi_figures |-> FALSE,
                       min_reported_time |-> 0]
    /\ src_content = NoContent
    /\ pure = NewTee
    /\ InitRest

TeeWrite ==
    /\ pure.fn = "LoggingTee"
    /\ Len(pure.calls) < MaxCalls
    /\ \E data \in SeqsUpTo(TeeChars,
                            MaxChars - Len(Flat(pure.output_file))) :
          pure' = tee_write(pure, data)
    /\ UNCHANGED <<scope, confvars, procvars, filevars, pc, gfrvars, ecb,
                   ret, histvars>>

TeeFlush ==
    /\ pure.fn = "LoggingTee"
    /\ Len(pure.calls) < MaxCalls
    /\ pure' = tee_flush(pure)
    /\ UNCHANGED <<scope, confvars, procvars, filevars, pc, gfrvars, ecb,
                   ret, histvars>>

NextTee == TeeWrite \/ TeeFlush

SpecTee == InitTee /\ [][NextTee]_vars

(***************************************************************************)
(* Properties.                                                             *)
(***************************************************************************)
\* the file is marked for execution by the configuration
Marked ==
    ReSearch(gallery_conf.filename_pattern, SrcFile)
    /\ gallery_conf.plot_gallery
\* the file is in the registry of failing examples
Failing == SrcFile \in DOMAIN failing_examples
\* execute_code_block has just been left, by return or by a failure
EcbExited == pc \in {"ecb_ret", "ecb_raise"}

\* C1: within one call of generate_file_rst, once a block's failure is
\* recorded, execute_script is false in every later state of the call and
\* no block after the failing one is compiled or executed.
C1_NoExecutionAfterFailure ==
    cur.failed_block # 0 =>
        /\ ~ block_vars.execute_script
        /\ \A b \in cur.executed : b <= cur.failed_block
        /\ pc \notin {"try", "except", "else"}

\* C1 witness: a code block after the failing one has gone through
\* execute_code_block without being run.
C1_Witness ==
    /\ cur.failed_block # 0
    /\ pc = "ecb_ret"
    /\ block_idx > cur.failed_block
    /\ cur.ecb_path = "skip"

\* the failure left execute_code_block; registry and flag are as at the call
Propagated ==
    /\ pc = "ecb_raise"
    /\ failing_examples = cur.call_failing
    /\ block_vars.execute_script
\* the failure was recovered: recorded, flag off, traceback in the result
Recovered ==
    /\ pc = "ecb_ret"
    /\ ecb.exc = NoExc
    /\ Failing
    /\ failing_examples[SrcFile] = formatted_exception(cur.raised)
    /\ ~ block_vars.execute_script
    /\ ecb.code_output.kind = "traceback"
    /\ ecb.code_output.tb = formatted_exception(cur.raised)

\* C2 as stated: every failure raised while running a block propagates with
\* registry and flag unchanged when abort_on_example_error is set, and is
\* recovered locally (recorded, flag off, traceback in the block's result,
\* nothing escaping execute_code_block) otherwise.
C2_EveryFailureHandled ==
    (EcbExited /\ cur.raised # NoExc) =>
        IF gallery_conf.abort_on_example_error THEN Propagated
        ELSE Recovered

\* C2 amended: the two outcomes are those of a failure that is an Exception;
\* a failure that is not (SystemExit, KeyboardInterrupt) propagates whatever
\* abort_on_example_error is, with registry and flag unchanged.
C2_ExceptionsHandled ==
    (EcbExited /\ cur.raised # NoExc) =>
        IF IsException(cur.raised)
        THEN IF gallery_conf.abort_on_example_error THEN Propagated
             ELSE Recovered
        ELSE Propagated

\* C2 witness: a failure was recovered locally.
C2_Witness ==
    /\ pc = "ecb_ret"
    /\ cur.raised # NoExc
    /\ ~ gallery_conf.abort_on_example_error

\* C3: when execute_code_block is left, by whatever path, the working
\* directory and sys.stdout are what they were at the call.
C3_CwdAndStdoutRestored ==
    EcbExited => (cwd = cur.call_cwd /\ sys_stdout = cur.call_stdout)

\* C3 witness: execute_code_block was left by a failure propagated under
\* abort_on_example_error.
C3_Witness ==
    /\ pc = "ecb_raise"
    /\ cur.ecb_path = "abort"
    /\ cwd = StartDir

\* C4: when generate_file_rst is left, by whatever path, sys.argv has the
\* contents it had at the call.
C4_ArgvRestored ==
    pc = "done" => sys_argv = cur.entry_argv

\* C5: the md5 sidecar is written in a call only if the file was marked for
\* execution and no block of it failed in that call.
C5_Md5OnlyAfterSuccess ==
    cur.md5_written => (Marked /\ cur.failed_block = 0)

\* C5 witness: a call that executed the file's blocks wrote the sidecar.
C5_Witness ==
    /\ cur.md5_written
    /\ cur.executed # {}
    /\ md5_file = get_md5sum(example_file)

\* C6 as stated: the second of two calls in a row on an unchanged file
\* compiles and executes no block and returns the first call's
\* introduction, whatever the first call's outcome.
C6_SecondRunExecutesNothing ==
    (pc = "done" /\ last.valid /\ last.unchanged) =>
        /\ cur.executed = {}
        /\ (ret.kind = "return" /\ last.ret.kind = "return")
               => ret.intro = last.ret.intro

\* C6 amended: the second call executes nothing, and returns the same
\* introduction when both calls return, if the first call was a cache hit,
\* wrote the sidecar, or had execution disabled; after a first call in
\* which a block failed the blocks are compiled and executed again.
C6_SecondRunAfterSuccess ==
    (/\ pc = "done"
     /\ last.valid
     /\ last.unchanged
     /\ (last.hit \/ last.md5_written \/ ~ last.marked)) =>
        /\ cur.executed = {}
        /\ (ret.kind = "return" /\ last.ret.kind = "return")
               => ret.intro = last.ret.intro

\* C6 witness: the second call, after a call that executed the blocks and
\* wrote the sidecar, was a cache hit.
C6_Witness ==
    /\ pc = "done"
    /\ last.valid
    /\ last.unchanged
    /\ last.md5_written
    /\ last.executed > 0
    /\ last.ret.kind = "return"
    /\ ret.kind = "return"

\* C7: when the sidecar holds the digest of the copied file,
\* generate_file_rst returns (intro, 0) and writes nothing: no block is
\* executed, the sidecar, the document, the notebook, the images and the
\* thumbnail are as before, and so are failing_examples, sys.argv and the
\* figure counter.
C7_CacheHitChangesNothing ==
    [][(pc = "cache_check" /\ md5_file = get_md5sum(example_file)) =>
          /\ pc' = "done"
          /\ ret' = [kind |-> "return",
                     intro |-> extract_intro(example_file.doc),
                     time |-> 0, etype |-> "none"]
          /\ cur'.executed = {}
          /\ UNCHANGED <<md5_file, rst_file, notebook_file, images,
                         thumb_file, failing_examples, sys_argv,
                         block_vars, cwd, sys_stdout, fignums, scenes>>]_vars

\* C7 witness: a call ended as a cache hit.
C7_Witness ==
    /\ pc = "done"
    /\ cur.hit
    /\ md5_file = get_md5sum(example_file)

\* C8: over the code blocks of one file, the image numbers save_figures
\* uses are strictly increasing, none used twice.
C8_ImageNumbersIncrease ==
    \A i, j \in DOMAIN cur.used : i < j => cur.used[i] < cur.used[j]

RECURSIVE SplitPath(_)
\* the components of a path string with '/' separators
SplitPath(str) ==
    IF str = <<>> THEN <<>>
    ELSE IF Head(str) = "/" THEN SplitPath(Tail(str))
    ELSE <<Head(str)>> \o SplitPath(Tail(str))

RECURSIVE Resolve(_, _)
\* the path that the components rel name, taken from the directory base
Resolve(base, rel) ==
    IF rel = <<>> THEN base
    ELSE IF Head(rel) = ".."
         THEN Resolve(SubSeq(base, 1, Len(base) - 1), Tail(rel))
    ELSE IF Head(rel) = "." THEN Resolve(base, Tail(rel))
    ELSE Resolve(Append(base, Head(rel)), Tail(rel))

\* str names target relative to base, with forward slashes only and no
\* leading slash
EmittedPathOk(str, base, target) ==
    /\ "\\" \notin Range(str)
    /\ str # <<>>
    /\ Head(str) # "/"
    /\ Resolve(base, SplitPath(str)) = target

\* C9: for N figure paths figure_rst returns the count N and a fragment
\* that is empty when N = 0, the single-image template with one reference
\* when N = 1, and the horizontal-list header with N image entries in list
\* order when N > 1; every path is relative to the source root, with
\* forward slashes and no leading slash.
C9_FigureRst ==
    (pure.fn = "figure_rst" /\ pure.done) =>
        LET N == Len(pure.figure_list)
            rst == pure.images_rst
        IN  /\ pure.fig_num = N
            /\ N = 0 => rst = <<>>
            /\ N = 1 =>
                  /\ Len(rst) = 1
                  /\ rst[1].tpl = "SINGLE_IMAGE"
                  /\ EmittedPathOk(rst[1].path, pure.sources_dir,
                                   pure.figure_list[1])
            /\ N > 1 =>
                  /\ Len(rst) = N + 1
                  /\ rst[1] = HLIST_HEADER
                  /\ \A k \in 1..N :
                        /\ rst[k + 1].tpl = "HLIST_IMAGE_TEMPLATE"
                        /\ EmittedPathOk(rst[k + 1].path, pure.sources_dir,
                                         pure.figure_list[k])

\* C9 witness: figure_rst returned for several figures, one of them outside
\* the source root, on a platform whose separator is the backslash.
C9_Witness ==
    /\ pure.fn = "figure_rst"
    /\ pure.done
    /\ Len(pure.figure_list) > 1
    /\ pure.sep = "\\"
    /\ \E k \in DOMAIN pure.figure_list :
          Head(pure.figure_list[k]) # Head(pure.sources_dir)

\* C10: save_thumbnail takes the broken-example placeholder for a failing
\* file; else the image numbered thumbnail_number (1 by default) when it
\* exists; else the default placeholder when there is no thumbnail yet;
\* else it leaves the existing thumbnail as it is.
C10_ThumbnailChoice ==
    cur.thumb_done =>
        LET n == IF file_conf.thumbnail_number.given
                 THEN file_conf.thumbnail_number.val ELSE 1
        IN  /\ Failing => thumb_file = BrokenThumb
            /\ (~ Failing /\ n \in images) => thumb_file = ImageThumb(n)
            /\ (~ Failing /\ n \notin images /\ cur.thumb_pre = NoThumb)
                  => thumb_file = DefaultThumb
            /\ (~ Failing /\ n \notin images /\ cur.thumb_pre # NoThumb)
                  => thumb_file = cur.thumb_pre

\* C10 witness: the thumbnail of a file whose blocks saved three images was
\* taken from the second one, as thumbnail_number = 2 asks.
C10_Witness ==
    /\ cur.thumb_done
    /\ ~ Failing
    /\ file_conf.thumbnail_number.given
    /\ file_conf.thumbnail_number.val = 2
    /\ {1, 2, 3} \subseteq images
    /\ thumb_file = ImageThumb(2)

\* C11: the blocks of a file are executed in parser order in one
\* namespace, created for the file with __doc__ and __name__ only: a block
\* sees exactly these and the bindings of the blocks of the file executed
\* before it, and the namespace never holds a binding made in another call.
C11_OneNamespacePerFile ==
    /\ \A k \in DOMAIN cur.observed :
          /\ cur.observed[k].namespace =
                fresh_globals \cup
                { bound_by(runs, cur.observed[j].b) : j \in 1..(k - 1) }
          /\ \A j \in 1..(k - 1) : cur.observed[j].b < cur.observed[k].b
    /\ example_globals \subseteq
          fresh_globals \cup
          { bound_by(runs, b) : b \in DOMAIN script_blocks }

\* C11 witness: the second code block of a file was executed after the
\* first one.
C11_Witness ==
    /\ Len(cur.observed) = 2
    /\ pc = "else"
    /\ bound_by(runs, cur.observed[1].b) \in cur.observed[2].namespace

\* what execute_code_block returns for a block
OutKinds == {"empty", "output", "traceback"}

RECURSIVE Assembled(_, _, _)
\* tokens holds the blocks from number k on, each once, in order, code and
\* output in the order of the layout
Assembled(tokens, k, blocks) ==
    IF k > Len(blocks) THEN tokens = <<>>
    ELSE IF blocks[k] = "text"
    THEN /\ Len(tokens) >= 1
         /\ tokens[1] = [t |-> "text", b |-> k]
         /\ Assembled(Tail(tokens), k + 1, blocks)
    ELSE IF Len(blocks) > 2
    THEN /\ Len(tokens) >= 2
         /\ tokens[1] = [t |-> "code", b |-> k]
         /\ tokens[2].b = k
         /\ tokens[2].t \in OutKinds
         /\ Assembled(SubSeq(tokens, 3, Len(tokens)), k + 1, blocks)
    ELSE /\ Len(tokens) >= 2
         /\ tokens[1].b = k
         /\ tokens[1].t \in OutKinds
         /\ IF tokens[2] = [t |-> "spacer", b |-> k]
            THEN /\ Len(tokens) >= 3
                 /\ tokens[3] = [t |-> "code", b |-> k]
                 /\ Assembled(SubSeq(tokens, 4, Len(tokens)), k + 1, blocks)
            ELSE /\ tokens[2] = [t |-> "code", b |-> k]
                 /\ Assembled(SubSeq(tokens, 3, Len(tokens)), k + 1, blocks)

\* C16: after the loop the document holds every block once, in parser
\* order; in a file of more than 2 blocks a code block is followed by its
\* output, in a file of 2 blocks or fewer the output comes first, with a
\* spacer after it exactly when the block printed something; the code of
\* a block that failed or was not executed is there as well.
C16_DocumentLayout ==
    [][/\ pc = "md5" => Assembled(Tail(example_rst), 1, script_blocks)
       /\ (pc = "ecb_ret" /\ pc' = "loop" /\ Len(script_blocks) <= 2) =>
             (ecb.code_output.stdout <=>
                 \E k \in (Len(example_rst) + 1)..Len(example_rst') :
                     example_rst'[k].t = "spacer")]_vars

\* the document has a timing footer
TimingIn(doc) == \E k \in DOMAIN doc : doc[k].t = "timing"
\* the document ends with the download footer and the signature, after
\* the timing footer if there is one
FootersInOrder(doc) ==
    /\ Len(doc) >= 2
    /\ doc[Len(doc)].t = "signature"
    /\ doc[Len(doc) - 1].t = "download"
    /\ \A k \in DOMAIN doc :
          /\ doc[k].t = "timing" => k = Len(doc) - 2
          /\ doc[k].t = "download" => k = Len(doc) - 1
          /\ doc[k].t = "signature" => k = Len(doc)

\* C17 as stated: the timing footer is written only when the elapsed time
\* is strictly greater than min_reported_time, and not when they are equal;
\* the download footer and the signature always follow, in this order.
C17_TimingAboveThreshold ==
    cur.doc # <<>> =>
        /\ TimingIn(cur.doc) <=>
              time_elapsed > gallery_conf.min_reported_time
        /\ FootersInOrder(cur.doc)

\* C17 amended: the timing footer is written exactly when the elapsed time
\* is greater than or equal to min_reported_time, so also when they are
\* equal; the download footer and the signature always follow, in this
\* order.
C17_TimingFromThreshold ==
    cur.doc # <<>> =>
        /\ TimingIn(cur.doc) <=>
              time_elapsed >= gallery_conf.min_reported_time
        /\ FootersInOrder(cur.doc)

\* C17 witness: the document of a file that was not executed, written
\* with a timing footer under the threshold 0.
C17_Witness ==
    /\ cur.doc # <<>>
    /\ ~ cur.marked
    /\ time_elapsed = 0
    /\ gallery_conf.min_reported_time = 0
    /\ TimingIn(cur.doc)

\* C18: with a thumbnail_number that is not an integer save_thumbnail
\* raises TypeError and has no effect: no thumbnail directory, no
\* thumbnail file written; with an integer it does not raise.
C18_ThumbnailNumberType ==
    [][pc = "thumb" =>
          IF file_conf.thumbnail_number.isint
          THEN /\ pc' = "write"
               /\ ret'.kind # "raise"
          ELSE /\ pc' = "done"
               /\ ret' = Raised("TypeError")
               /\ UNCHANGED <<thumb_file, thumb_dir, images>>]_vars

\* C18 witness: the call ended with the TypeError, no thumbnail directory
\* made.
C18_Witness ==
    /\ pc = "done"
    /\ ret = Raised("TypeError")
    /\ ~ file_conf.thumbnail_number.isint
    /\ ~ thumb_dir
    /\ thumb_file = NoThumb

\* C19: with the execute flag off execute_code_block returns an empty
\* output and the time 0 and changes nothing: the open figures, the
\* working directory, sys.stdout, the namespace, the figure counter, the
\* registry and the images are as before.
C19_SkipChangesNothing ==
    [][(pc = "ecb" /\ ~ block_vars.execute_script) =>
          /\ pc' = "ecb_ret"
          /\ ecb'.code_output = [NoOutput EXCEPT !.kind = "empty"]
          /\ ecb'.rtime = 0
          /\ UNCHANGED <<fignums, scenes, cwd, sys_stdout, sys_argv,
                         example_globals, block_vars, failing_examples,
                         images>>]_vars

\* C19 witness: a block was skipped after an earlier block failed, and the
\* figures the failing block left open are still open.
C19_Witness ==
    /\ pc = "ecb_ret"
    /\ cur.ecb_path = "skip"
    /\ cur.failed_block # 0
    /\ fignums # {}

\* C20: generate_file_rst returns the sum of the times of the blocks that
\* ran to their end; a failed block and a skipped block count for 0, and
\* a failed block saves no image and leaves the figure counter as it was.
C20_ElapsedTime ==
    /\ (pc = "done" /\ ret.kind = "return") => ret.time = cur.ok_time
    /\ (pc = "ecb_ret" /\ cur.ecb_path \in {"recorded", "skip"}) =>
          ecb.rtime = 0
    /\ (/\ pc \in {"ecb_ret", "ecb_raise"}
        /\ cur.ecb_path \in {"recorded", "abort"}) =>
          /\ images = cur.call_images
          /\ block_vars.fig_count = cur.call_fig_count

\* C20 witness: a call returned the time of its first code block, the
\* second one having failed.
C20_Witness ==
    /\ pc = "done"
    /\ ret.kind = "return"
    /\ ret.time = 1
    /\ cur.failed_block = 4
    /\ cur.executed = {2, 4}

\* the parser was called and is over
Parsed == pure.fn = "split_code_and_text_blocks" /\ pure.stage # "called"
\* the labels of the blocks, in order
Labels(blocks) == [k \in DOMAIN blocks |-> blocks[k].label]
\* index of the last header line of rest, 0 if there is none
LastHeader(rest) ==
    IF \E k \in DOMAIN rest : rest[k] = "header"
    THEN CHOOSE k \in DOMAIN rest :
            /\ rest[k] = "header"
            /\ \A j \in DOMAIN rest : rest[j] = "header" => j <= k
    ELSE 0
\* a docstring, then code, then one header and its comment body
EndsWithHeader(src) ==
    LET h == LastHeader(src.rest)
    IN  /\ src.syntax_ok
        /\ src.docstring = "text"
        /\ h > 1
        /\ \A k \in 1..(h - 1) : src.rest[k] \in {"code", "blank"}
        /\ \E k \in 1..(h - 1) : src.rest[k] = "code"
        /\ \A k \in (h + 1)..Len(src.rest) :
              src.rest[k] \in {"hash", "comment"}

\* C12: a source made of a docstring, code, and a trailing section header
\* with its comment body gives exactly the blocks text, code, text, or
\* text, code when the comment body is empty, with start lines that never
\* decrease.
C12_TrailingHeader ==
    (Parsed /\ EndsWithHeader(pure.src)) =>
        LET h == LastHeader(pure.src.rest)
            body == \E k \in (h + 1)..Len(pure.src.rest) :
                        pure.src.rest[k] = "comment"
            blocks == pure.result.blocks
        IN  /\ pure.result.kind = "return"
            /\ Labels(blocks) = IF body THEN <<"text", "code", "text">>
                                ELSE <<"text", "code">>
            /\ \A i, j \in DOMAIN blocks :
                  i <= j => blocks[i].lineno <= blocks[j].lineno

\* C13: the start line recorded for a block is the number, in the source,
\* of the first line the block holds.
C13_StartLines ==
    (Parsed /\ pure.result.kind = "return") =>
        \A k \in DOMAIN pure.result.blocks :
            pure.result.blocks[k].lineno = pure.result.blocks[k].first

\* the content that extract_file_config is given holds an invalid directive
HasInvalidDirective(src) ==
    /\ ~ src.syntax_ok \/ src.docstring = "text"
    /\ \E k \in DOMAIN src.rest : src.rest[k] = "conf_bad"

\* C14: a directive with an invalid value is skipped: the parser returns,
\* the directive's key is not set, the valid directives of the file are
\* recorded and the blocks are produced.
C14_InvalidDirectiveSkipped ==
    (Parsed /\ HasInvalidDirective(pure.src)) =>
        /\ pure.result.kind = "return"
        /\ "b" \notin pure.result.file_conf
        /\ (\E k \in DOMAIN pure.src.rest : pure.src.rest[k] = "conf_ok")
              => "a" \in pure.result.file_conf
        /\ pure.result.blocks # <<>>

\* C15: a source that parses and has no docstring, or an empty one, makes
\* the parser raise, with no block produced and before the cache check; a
\* source that does not parse never makes the parser raise: the first
\* block is the synthetic SyntaxError docstring and the whole content is
\* split as code from line 1.
C15_SourceProblems ==
    /\ (pure.fn = "split_code_and_text_blocks"
        /\ pure.stage = "cache_check") => pure.result.kind = "return"
    /\ (Parsed /\ pure.src.syntax_ok
        /\ pure.src.docstring \in {"none", "empty"}) =>
            /\ pure.result.kind = "raise"
            /\ pure.result.blocks = <<>>
    /\ (Parsed /\ ~ pure.src.syntax_ok) =>
            /\ pure.result.kind = "return"
            /\ pure.result.blocks[1] =
                  [label |-> "text", lineno |-> 1, first |-> 1, upto |-> 0,
                   content |-> SYNTAX_ERROR_DOCSTRING]
            /\ LET content == ContentLines(pure.src)
               IN  (content # <<>> /\ content[1] \notin {"header", "blank"})
                      => /\ Len(pure.result.blocks) >= 2
                         /\ pure.result.blocks[2].label = "code"
                         /\ pure.result.blocks[2].lineno = 1

RECURSIVE Role(_, _)
\* what line i of the content is by the description of the splitting: a
\* line of the comment body that follows a header (any line that starts
\* with '#', a line of 20 '#' as well), a header line, or code
Role(lines, i) ==
    IF /\ lines[i] \in HashKinds
       /\ i > 1
       /\ Role(lines, i - 1) \in {"header", "text"}
    THEN "text"
    ELSE IF lines[i] = "header" THEN "header"
    ELSE "code"

\* from..to is a maximal run of lines of one role in lines
MaximalRun(lines, role, from, to) ==
    /\ from <= to
    /\ \A k \in from..to : Role(lines, k) = role
    /\ from > 1 => Role(lines, from - 1) # role
    /\ to < Len(lines) => Role(lines, to + 1) # role

\* line i holds something that is not whitespace once the '#' of a
\* comment body is taken away, and is not a header line
HasText(lines, i) ==
    CASE Role(lines, i) = "code" -> lines[i] # "blank"
      [] Role(lines, i) = "text" -> lines[i] # "hash"
      [] OTHER -> FALSE

\* the lines that are split and the number of lines before them, as the
\* result of the parser has them
SplitContent(src) ==
    IF src.syntax_ok THEN src.rest ELSE ContentLines(src)
SplitOffset(src) ==
    IF src.syntax_ok THEN src.pre + src.doc_lines ELSE 0

\* C21: the first block is the text block of the docstring at line 1;
\* every later block holds a character that is not whitespace; every
\* maximal run of lines that are neither header nor comment body, unless
\* it is whitespace only, is one code block, and there is no other code
\* block; no line is in two blocks and no line with text outside the
\* header lines is in none.
C21_BlocksPartition ==
    (Parsed /\ pure.result.kind = "return") =>
        LET blocks == pure.result.blocks
            lines == SplitContent(pure.src)
            offset == SplitOffset(pure.src)
            Holds(k, n) == blocks[k].first <= n /\ n <= blocks[k].upto
        IN  /\ blocks[1].label = "text"
            /\ blocks[1].lineno = 1
            /\ blocks[1].content =
                  get_docstring_and_rest(pure.src).docstring
            /\ \A k \in 2..Len(blocks) :
                  \E n \in 1..Len(lines) :
                      /\ Holds(k, offset + n)
                      /\ IF blocks[k].label = "code"
                         THEN lines[n] # "blank"
                         ELSE lines[n] \in HashKinds \ {"hash"}
            /\ \A from, to \in 1..Len(lines) :
                  (MaximalRun(lines, "code", from, to)
                   /\ NonBlank(lines, from, to)) =>
                      \E k \in 2..Len(blocks) :
                          /\ blocks[k].label = "code"
                          /\ blocks[k].first = offset + from
                          /\ blocks[k].upto = offset + to
                          /\ \A j \in 2..Len(blocks) :
                                (blocks[j].label = "code"
                                 /\ blocks[j].first = offset + from)
                                    => j = k
            /\ \A k \in 2..Len(blocks) :
                  blocks[k].label = "code" =>
                      MaximalRun(lines, "code", blocks[k].first - offset,
                                 blocks[k].upto - offset)
            /\ \A j, k \in 1..Len(blocks) :
                  j < k => blocks[j].upto < blocks[k].first
            /\ \A n \in 1..Len(lines) :
                  HasText(lines, n) =>
                      \E k \in 2..Len(blocks) : Holds(k, offset + n)

\* the calls of write among calls
IsWrite(call) == call.op = "write"
RECURSIVE Endings(_, _)
\* the number of line endings of data from character i on, '\r\n' one
Endings(data, i) ==
    IF i > Len(data) THEN 0
    ELSE IF data[i] = "\r" /\ i < Len(data) /\ data[i + 1] = "\n"
    THEN 1 + Endings(data, i + 2)
    ELSE IF data[i] \in LineBoundaries THEN 1 + Endings(data, i + 1)
    ELSE Endings(data, i + 1)
\* the characters of data that are not line endings
IsLetter(c) == c \notin LineBoundaries
Letters(data) == SelectSeq(data, IsLetter)
\* what follows the last line ending of data
TrailingPart(data) ==
    LET ends == { k \in DOMAIN data : data[k] \in LineBoundaries }
    IN  IF ends = {} THEN data
        ELSE SubSeq(data, (CHOOSE k \in ends : \A j \in ends : j <= k) + 1,
                    Len(data))
\* s is the end of t
IsSuffix(s, t) ==
    /\ Len(s) <= Len(t)
    /\ SubSeq(t, Len(t) - Len(s) + 1, Len(t)) = s

\* C22: the wrapped stream gets every chunk written, unchanged and in
\* order; a write logs no more lines than the buffer and the chunk hold
\* line endings, keeps what follows the last line ending in the buffer
\* and neither loses nor repeats a character: the held part is logged
\* once, joined with what is written after it or alone by flush, and
\* after flush the buffer is empty.
C22_TeeBuffering ==
    [][pure.fn = "LoggingTee" =>
          LET call == pure'.calls[Len(pure'.calls)]
              new == SubSeq(pure'.logged, Len(pure.logged) + 1,
                            Len(pure'.logged))
              writes == SelectSeq(pure'.calls, IsWrite)
          IN  /\ SubSeq(pure'.logged, 1, Len(pure.logged)) = pure.logged
              /\ pure'.output_file =
                    [k \in DOMAIN writes |-> writes[k].data]
              /\ call.op = "write" =>
                    LET joined == pure.logger_buffer \o call.data
                    IN  /\ Len(new) <= Endings(joined, 1)
                        /\ IsSuffix(TrailingPart(joined),
                                    pure'.logger_buffer)
                        /\ Letters(Flat(new))
                              \o Letters(pure'.logger_buffer)
                                 = Letters(joined)
              /\ call.op = "flush" =>
                    /\ pure'.logger_buffer = <<>>
                    /\ new = IF pure.logger_buffer # <<>>
                             THEN <<pure.logger_buffer>> ELSE <<>>]_vars

\* C22 witness: a part written without line ending was logged in one line
\* with the text of the next write, and a later part by flush.
C22_Witness ==
    /\ pure.fn = "LoggingTee"
    /\ pure.calls = <<[op |-> "write", data |-> <<"a">>],
                      [op |-> "write", data |-> <<"a", "\n", "a">>],
                      [op |-> "flush", data |-> <<>>]>>
    /\ pure.logged = << <<"a", "a">>, <<"a">> >>
    /\ pure.logger_buffer = <<>>

\* C26: after writes and one final flush, the lines logged are those
\* logged when the whole text is written by one call of write: they do
\* not depend on the chunks.
C26_ChunkingIndependent ==
    (/\ pure.fn = "LoggingTee"
     /\ pure.calls # <<>>
     /\ \A k \in DOMAIN pure.calls :
           pure.calls[k].op = "flush" <=> k = Len(pure.calls)) =>
        pure.logged =
            tee_flush(tee_write(NewTee, Flat(pure.output_file))).logged

\* the frames of the example's own code
ExampleFrames == {"<module>", "f"}

\* C23: the traceback recorded for a failed block is the failure's stack
\* without its first two frames when the failure is a syntax error of the
\* parsing of the block, and without its first frame for every other
\* failure, a syntax error raised by the running example included; no
\* frame of the example is removed.
C23_FrameStripping ==
    (pc = "ecb_ret" /\ cur.ecb_path = "recorded") =>
        LET stack == cur.raised.stack
            kept == ecb.code_output.tb.stack
        IN  /\ kept = IF cur.raised \in CompileErrors
                      THEN SubSeq(stack, 3, Len(stack))
                      ELSE SubSeq(stack, 2, Len(stack))
            /\ kept = SelectSeq(stack, LAMBDA fr : fr \in ExampleFrames)

\* C24: whenever a call is a cache hit, the document on disk was written
\* by a call that executed the blocks of the same content as the current
\* one, none of them failing.
C24_HitMeansCurrentDocument ==
    (pc = "done" /\ cur.hit) =>
        /\ rst_file.src = example_file
        /\ rst_file.kind = "executed"

\* the last call ended in a failure after the blocks, its document not
\* written
FailedAfterBlocks ==
    /\ last.valid
    /\ last.unchanged
    /\ last.ret.kind = "raise"
    /\ last.ret.etype = "TypeError"

\* C25: the sidecar is never current for a content whose document was not
\* written: after a call that failed in the thumbnail step, the next call
\* on the unchanged file is no cache hit.
C25_NoSidecarWithoutDocument ==
    /\ (pc = "idle" /\ md5sum_is_current(src_content, md5_file)) =>
          rst_file.src = src_content
    /\ (pc = "done" /\ FailedAfterBlocks) => ~ cur.hit

====
